---- MODULE Spec2Model ----
(***************************************************************************)
(* Index lifecycle and retrieval-augmented chat of the ai_chatbot          *)
(* repository.                                                             *)
(*                                                                         *)
(* Two programs touch vector indexes.  The management script               *)
(* (vector_db_management.py) keeps its indexes under ~/.ragbot/vector_dbs; *)
(* the Streamlit pages (VectorStore, RAGChatAppFRE, RAGChatAppCE) keep     *)
(* theirs under <cwd>/vector_store.  The two roots, and the two context    *)
(* folders, are different directories, so the programs share no state:     *)
(* the variable "program" says which one a behaviour follows.              *)
(***************************************************************************)
EXTENDS Integers, Sequences, FiniteSets, TLC

VARIABLES
    program,      \* "cli": the management script; "ui": the Streamlit session
    cliPc,        \* where main() waits: "menu", "ask_folder", "exited", "crashed"
    cliReq,       \* the menu choice being served: [choice, name]
    cliOp,        \* what load_documents was called for: "none", "create", "resync"
    cliDisk,      \* directories under VECTOR_DB_DIR: name -> "absent" | "partial" | "ready"
    cliTrace,     \* the steps executed for the menu choice being served
    cliLog,       \* the log records written for the menu choice being served
    cliExc,       \* the exception that ended the script, or "none"
    uiDisk,       \* directories under <cwd>/vector_store
    ss,           \* st.session_state, the keys the pages below read and write
    vector_store, \* VectorStore.vector_store when the last pass ended
    rerun,        \* st.rerun() was called: the next pass is a rerun of the page
    uiLast,       \* the last pass: page, event, how it ended, what it showed and did
    messages,     \* rag_fre_messages / rag_ce_messages: the display list, per app
    store,        \* rag_fre_store / rag_ce_store: the history the chain prompts with
    writers       \* per browser session: the build its script thread is running

cliVars == <<cliPc, cliReq, cliOp, cliDisk, cliTrace, cliLog, cliExc>>

uiVars == <<uiDisk, ss, vector_store, rerun, uiLast, messages, store, writers>>

vars == <<program, cliPc, cliReq, cliOp, cliDisk, cliTrace, cliLog, cliExc,
          uiDisk, ss, vector_store, rerun, uiLast, messages, store, writers>>

None == "None"

(***************************************************************************)
(* The file system.  A directory under an index root is absent, holds a    *)
(* complete index ("ready": index.faiss and index.pkl both written), or    *)
(* holds less than that ("partial": FAISS.save_local creates the directory *)
(* and then writes the two files, so a failure after the mkdir leaves the  *)
(* directory behind).                                                      *)
(***************************************************************************)
DirStates == {"absent", "partial", "ready"}

\* the names a user of the script types at "Enter a name for the new vector database"
CliNames == {"a-index", "docs"}

\* the folder / bucket names a user can give as a document source
Sources == {"a", "b"}

\* what a context folder entry can be when it is looked at
FolderStates == {"missing", "empty", "pdfs"}

\* where index creation can fail: nowhere, in loader.load(), while chunking,
\* while embedding, in save_local before the directory exists, in save_local
\* after it exists
Failures == {"none", "load", "split", "embed", "save_before_mkdir", "save_after_mkdir"}

Dirs(disk) == {n \in DOMAIN disk : disk[n] # "absent"}

\* shutil.rmtree(path)
Rmtree(disk, name) == [disk EXCEPT ![name] = "absent"]

\* FAISS.save_local(path): mkdir(exist_ok), write index.faiss, write index.pkl.
\* disk holds the directories directly under the index root, so a path that
\* is not one of them (it leaves the root) changes nothing in disk.
SaveLocal(disk, name, fail) ==
    CASE name \notin DOMAIN disk     -> disk
      [] fail = "save_before_mkdir" -> disk
      [] fail = "save_after_mkdir"  -> [disk EXCEPT ![name] = "partial"]
      [] OTHER                      -> [disk EXCEPT ![name] = "ready"]

(***************************************************************************)
(* vector_db_management.py                                                 *)
(***************************************************************************)

\* create_vector_db(documents, db_name): split, embed, save; no try/except,
\* so the first failing call raises out of main().
create_vector_db(disk, name, fail) ==
    LET reached == CASE fail = "split" -> <<"split">>
                     [] fail = "embed" -> <<"split", "embed">>
                     [] OTHER          -> <<"split", "embed", "save">>
        saved   == IF fail \in {"split", "embed"} THEN disk
                   ELSE SaveLocal(disk, name, fail)
    IN  [disk  |-> saved,
         trace |-> reached,
         log   |-> IF fail = "none" THEN {<<"info", "created">>} ELSE {},
         exc   |-> IF fail = "none" THEN "none" ELSE "Exception"]

\* a resync that builds first and removes the old index afterwards
resync_after_load_build_first(disk, name, fail) ==
    LET c == create_vector_db(disk, name, fail)
    IN  [disk  |-> c.disk,
         trace |-> c.trace \o (IF c.exc = "none" THEN <<"rmtree">> ELSE <<>>),
         log   |-> c.log \cup (IF c.exc = "none" THEN {<<"info", "resynced">>} ELSE {}),
         exc   |-> c.exc]

\* resync_vector_db(db_name), the part after load_documents() has returned:
\* rmtree, then create_vector_db.
resync_after_load(disk, name, fail) ==
    LET c == create_vector_db(Rmtree(disk, name), name, fail)
    IN  [disk  |-> c.disk,
         trace |-> <<"rmtree">> \o c.trace,
         log   |-> c.log \cup {<<"info", "deleting">>}
                         \cup (IF c.exc = "none" THEN {<<"info", "resynced">>} ELSE {}),
         exc   |-> c.exc]

\* delete_vector_db without its exists() test: rmtree raises on a missing path
delete_vector_db_unchecked(disk, name) ==
    [disk |-> Rmtree(disk, name), trace |-> <<"rmtree">>,
     log |-> IF disk[name] # "absent" THEN {<<"info", "deleted">>} ELSE {},
     exc |-> IF disk[name] # "absent" THEN "none" ELSE "FileNotFoundError"]

\* delete_vector_db(db_name)
delete_vector_db(disk, name) ==
    IF disk[name] # "absent"
    THEN [disk |-> Rmtree(disk, name), trace |-> <<"exists", "rmtree">>,
          log |-> {<<"info", "deleted">>}, exc |-> "none"]
    ELSE [disk |-> disk, trace |-> <<"exists">>,
          log |-> {<<"error", "does not exist">>}, exc |-> "none"]

\* the three values of an object-storage configuration, in the order in
\* which both resolvers look for them
AwsKeys == <<"region_name", "aws_access_key_id", "aws_secret_access_key">>

\* what resolving meets: env is what os.getenv returns per key, typed what
\* the user gives when asked; "" is a value that is not there
AwsCase(e1, e2, e3, t1, t2, t3) ==
    [env   |-> [k \in 1..3 |-> <<e1, e2, e3>>[k]],
     typed |-> [k \in 1..3 |-> <<t1, t2, t3>>[k]]]

AwsAllEnv == AwsCase("env", "env", "env", "", "", "")

\* nothing was asked for, nothing was resolved
NoAws == AwsCase("", "", "", "", "", "")

NoCfg == [k \in 1..3 |-> ""]

\* every value found, in the environment or at the prompt
AwsPresent ==
    {AwsAllEnv,
     AwsCase("env", "", "", "", "typed", "typed"),
     AwsCase("env", "env", "env", "typed", "typed", "typed")}

\* some value found in neither
AwsAbsent ==
    {AwsCase("env", "", "", "", "typed", ""),
     AwsCase("", "", "", "", "", "")}

AwsCases == AwsPresent \cup AwsAbsent

\* os.getenv(env_var) or <the value typed>
Resolve(aws, k) == IF aws.env[k] # "" THEN aws.env[k] ELSE aws.typed[k]

\* get_aws_config() of the script: aws_config = {} and then
\* "while not aws_config['region_name']" reads a key the dict does not
\* hold, whatever the environment holds: KeyError, before anything is
\* resolved.
get_aws_config(aws) == [cfg |-> NoCfg, exc |-> "KeyError"]

\* load_documents(), up to its first blocking prompt after the source type:
\* "local" waits for a folder name; "s3" reads the bucket name and calls
\* get_aws_config(); any other source type falls through to line 67, where
\* "documents" is unbound.
load_documents_start(source_type, aws) ==
    CASE source_type = "local" -> [pc |-> "ask_folder", exc |-> "none", trace |-> <<>>]
      [] source_type = "s3"    ->
            LET c == get_aws_config(aws)
                known == \A k \in 1..3 : Resolve(aws, k) # ""
                step  == IF known THEN "get_aws_config:present" ELSE "get_aws_config:absent"
            IN  IF c.exc # "none"
                THEN [pc |-> "crashed", exc |-> c.exc, trace |-> <<step>>]
                ELSE [pc |-> "ask_bucket", exc |-> "none", trace |-> <<step, "load:s3">>]
      [] OTHER                 -> [pc |-> "crashed", exc |-> "UnboundLocalError", trace |-> <<>>]

\* load_documents(), "local", one turn of the loop on a folder that exists:
\* loader.load(), the test len(documents) >= 1 that ends the loop, and then
\* what the caller does with the documents
load_documents_local(disk, op, name, folder, state, fail) ==
    LET r == IF op = "resync" THEN resync_after_load(disk, name, fail)
             ELSE create_vector_db(disk, name, fail)
        read == <<"folder:" \o folder, "load:" \o state>>
    IN  IF fail = "load"
        THEN [disk |-> disk, trace |-> read, log |-> {}, exc |-> "Exception"]
        ELSE [r EXCEPT !.trace = read \o @]

CliInit ==
    /\ cliPc = "menu"
    /\ cliReq = [choice |-> None, name |-> None]
    /\ cliOp = "none"
    /\ cliDisk = [n \in CliNames |-> "absent"]
    /\ cliTrace = <<>>
    /\ cliLog = {}
    /\ cliExc = "none"

\* a menu choice that ends without calling load_documents
CliFinish(r) ==
    /\ cliDisk' = r.disk
    /\ cliTrace' = r.trace
    /\ cliLog' = r.log
    /\ cliExc' = r.exc
    /\ cliOp' = "none"
    /\ cliPc' = IF r.exc = "none" THEN "menu" ELSE "crashed"

\* a menu choice that goes into load_documents()
CliLoad(op, trace, source_type, aws) ==
    LET s == load_documents_start(source_type, aws)
    IN  /\ cliOp' = op
        /\ cliTrace' = trace \o <<"load_documents">> \o s.trace
        /\ cliLog' = {}
        /\ cliPc' = s.pc
        /\ cliExc' = s.exc
        /\ UNCHANGED cliDisk

\* main(), choice "1": create, or resync when the name exists and the user says y
CliCreate(name, resync, source_type, aws) ==
    /\ program = "cli" /\ cliPc = "menu"
    /\ cliReq' = [choice |-> "1", name |-> name]
    /\ IF cliDisk[name] # "absent"
       THEN IF resync = "y"
            THEN CliLoad("resync", <<"exists", "confirm", "exists">>, source_type, aws)
            ELSE CliFinish([disk |-> cliDisk, trace |-> <<"exists", "declined">>,
                            log |-> {}, exc |-> "none"])
       ELSE CliLoad("create", <<"exists">>, source_type, aws)
    /\ UNCHANGED <<program, uiVars>>

\* main(), choice "2": resync_vector_db(db_name)
CliResync(name, source_type, aws) ==
    /\ program = "cli" /\ cliPc = "menu"
    /\ cliReq' = [choice |-> "2", name |-> name]
    /\ IF cliDisk[name] = "absent"
       THEN CliFinish([disk |-> cliDisk, trace |-> <<"exists">>,
                       log |-> {<<"error", "does not exist">>}, exc |-> "none"])
       ELSE CliLoad("resync", <<"exists">>, source_type, aws)
    /\ UNCHANGED <<program, uiVars>>

\* main(), choice "3": delete_vector_db(db_name)
CliDelete(name) ==
    /\ program = "cli" /\ cliPc = "menu"
    /\ cliReq' = [choice |-> "3", name |-> name]
    /\ CliFinish(delete_vector_db(cliDisk, name))
    /\ UNCHANGED <<program, uiVars>>

\* main(), choice "4" (exit) and any other input (invalid choice)
CliOther(choice) ==
    /\ program = "cli" /\ cliPc = "menu"
    /\ cliReq' = [choice |-> choice, name |-> None]
    /\ cliPc' = IF choice = "4" THEN "exited" ELSE "menu"
    /\ cliTrace' = <<>>
    /\ cliLog' = IF choice = "4" THEN {<<"info", "exiting">>} ELSE {}
    /\ cliOp' = "none"
    /\ UNCHANGED <<program, cliDisk, cliExc, uiVars>>

\* load_documents(), "local": one folder name typed at the prompt.  A folder
\* that is missing or holds no PDF is logged as a warning and asked again;
\* a folder with documents ends the loop and the pending operation runs.
CliFolder(folder, state, fail) ==
    /\ program = "cli" /\ cliPc = "ask_folder"
    /\ IF state # "pdfs"
       THEN /\ cliLog' = cliLog \cup {<<"warning", state>>}
            /\ UNCHANGED <<cliPc, cliOp, cliDisk, cliTrace, cliExc>>
       ELSE LET r == load_documents_local(cliDisk, cliOp, cliReq.name, folder, state, fail)
            IN  /\ cliDisk' = r.disk
                /\ cliTrace' = cliTrace \o r.trace
                /\ cliLog' = cliLog \cup r.log \cup {<<"info", "documents found">>}
                /\ cliExc' = r.exc
                /\ cliOp' = "none"
                /\ cliPc' = IF r.exc = "none" THEN "menu" ELSE "crashed"
    /\ UNCHANGED <<program, cliReq, uiVars>>

\* the user starts the script again after it exited or died of an exception
CliStart ==
    /\ program = "cli" /\ cliPc \in {"exited", "crashed"}
    /\ cliPc' = "menu"
    /\ cliReq' = [choice |-> None, name |-> None]
    /\ cliOp' = "none"
    /\ cliTrace' = <<>>
    /\ cliLog' = {}
    /\ cliExc' = "none"
    /\ UNCHANGED <<program, cliDisk, uiVars>>

CliNext ==
    \/ \E n \in CliNames, y \in {"y", "n"}, t \in {"local", "other"} :
            CliCreate(n, y, t, AwsAllEnv)
    \/ \E n \in CliNames, y \in {"y", "n"}, aws \in AwsCases : CliCreate(n, y, "s3", aws)
    \/ \E n \in CliNames, t \in {"local", "other"} : CliResync(n, t, AwsAllEnv)
    \/ \E n \in CliNames, aws \in AwsCases : CliResync(n, "s3", aws)
    \/ \E n \in CliNames : CliDelete(n)
    \/ \E c \in {"4", "other"} : CliOther(c)
    \/ \E f \in Sources, s \in FolderStates, x \in Failures : CliFolder(f, s, x)
    \/ CliStart

(***************************************************************************)
(* rag_app_3/vector_store.py                                               *)
(*                                                                         *)
(* A Streamlit page runs top to bottom once per user event (a pass).  A    *)
(* pass ends by falling off the end ("run"), by st.stop() ("stop"), by     *)
(* st.rerun() ("rerun", the page runs again at once with no widget event)  *)
(* or by an uncaught exception ("exception").  st.stop() and st.rerun()    *)
(* raise script-control exceptions that derive from BaseException, so an   *)
(* "except Exception" does not catch them.  The record p carries a pass:   *)
(* disk, ss, vs (VectorStore.vector_store), ret (the last return value),   *)
(* shown (what was displayed), trace (what was done), path (where          *)
(* save_local wrote), hits (what the retriever returned), out, msgs, hist. *)
(***************************************************************************)

\* index_path = index_root_path / f'{source}-index'
IndexName(source) == source \o "-index"

\* the directories directly under the index root
UiNames == {IndexName(s) : s \in Sources}

\* what the user can type as a bucket name: a bucket, nothing, or a name
\* the pattern of create_new_db rejects
BucketInputs == {"a", "", "../x"}

\* [file.name for file in self.index_root_path.glob('*') if file.is_dir()]
available_vector_db(disk) == Dirs(disk)

\* re.match(r'^[a-zA-Z0-9.\-_]{1,255}$', bucket_name)
ValidBucket(text) == text \in {"a"}

Show(p, m) == [p EXCEPT !.shown = @ \cup {m}]

Did(p, step) == [p EXCEPT !.trace = Append(@, step)]

End(p, how) == [p EXCEPT !.out = how]

\* load_vector_store that takes whatever the directory holds for an index
load_vector_store_unchecked(p, selected_vector) ==
    IF selected_vector = None
    THEN [p EXCEPT !.ret = None]
    ELSE [Did(p, "load_local") EXCEPT !.ret = selected_vector]

\* load_vector_store(index_root_path, _embedding_model, selected_vector):
\* FAISS.load_local reads index.faiss and index.pkl and raises when the
\* directory does not hold both.
load_vector_store(p, selected_vector) ==
    IF selected_vector = None
    THEN [p EXCEPT !.ret = None]
    ELSE IF p.disk[selected_vector] = "ready"
         THEN [Did(p, "load_local") EXCEPT !.ret = selected_vector]
         ELSE End(Did(p, "load_local"), "raise")

\* load_index that says nothing when there is no directory
load_index_silent(p, pick) ==
    IF available_vector_db(p.disk) # {}
    THEN LET q == load_vector_store([p EXCEPT !.ss.selected_vector = pick], pick)
         IN  IF q.out = "run" THEN [q EXCEPT !.vs = q.ret] ELSE q
    ELSE p

\* load_index(embedding_model).  The selectbox gets a fresh key on every
\* pass, so it holds no earlier choice and returns its first option, the
\* first directory in glob order: pick stands for that directory.
load_index(p, pick) ==
    IF available_vector_db(p.disk) # {}
    THEN LET q == load_vector_store([p EXCEPT !.ss.selected_vector = pick], pick)
         IN  IF q.out = "run" THEN [q EXCEPT !.vs = q.ret] ELSE q
    ELSE Show(p, "warning: No Vector DB available")

\* the tail of _create_index without the test "len(documents) < 1"
create_index_build_unchecked(p, name, ctx, fail) ==
    LET raised(q) == End(Show(q, "error: Error in _create_index"), "raise")
        loaded    == Did(p, "load:" \o ctx)
        split     == Did(loaded, "split")
        embedded  == Did(split, "embed")
        saved     == [Did(embedded, "save")
                        EXCEPT !.disk = SaveLocal(embedded.disk, name, fail),
                               !.path = name]
    IN  CASE fail = "load" \/ ctx = "missing" -> raised(loaded)
          [] fail = "split" -> raised(split)
          [] fail = "embed" -> raised(embedded)
          [] fail \in {"save_before_mkdir", "save_after_mkdir"} -> raised(saved)
          [] OTHER -> [Show(saved, "toast: Index created and saved") EXCEPT !.ret = name]

\* the tail of _create_index, from loader.load() on; the except clause
\* shows the error and re-raises, and removes nothing.
create_index_build(p, name, ctx, fail) ==
    LET raised(q) == End(Show(q, "error: Error in _create_index"), "raise")
        loaded    == Did(p, "load:" \o ctx)
        split     == Did(loaded, "split")
        embedded  == Did(split, "embed")
        saved     == [Did(embedded, "save")
                        EXCEPT !.disk = SaveLocal(embedded.disk, name, fail),
                               !.path = name]
    IN  CASE fail = "load" \/ ctx = "missing" -> raised(loaded)
          [] ctx = "empty" -> End(Show(loaded, "error: No documents found"), "stop")
          [] fail = "split" -> raised(split)
          [] fail = "embed" -> raised(embedded)
          [] fail \in {"save_before_mkdir", "save_after_mkdir"} -> raised(saved)
          [] OTHER -> [Show(saved, "toast: Index created and saved") EXCEPT !.ret = name]

\* _get_aws_config(): each value is os.getenv(...) or the sidebar text
\* input; the first value that is in neither stops the pass with a warning
VectorStore_get_aws_config(p, aws) ==
    LET missing == {k \in 1..3 : Resolve(aws, k) = ""}
        first   == CHOOSE k \in missing : \A j \in missing : k <= j
        q       == [Did(p, "get_aws_config") EXCEPT !.aws = aws]
    IN  IF missing # {}
        THEN End(Show(q, "warning: Invalid " \o AwsKeys[first]), "stop")
        ELSE [q EXCEPT !.cfg = [k \in 1..3 |-> Resolve(aws, k)]]

\* _create_index(embedding_model); aws is what _get_aws_config meets
create_index(p, ctx, aws, fail) ==
    IF p.ss.use_local_files
    THEN IF p.ss.selected_folder = None
         THEN End(Show(p, "error: No folder selected"), "stop")
         ELSE IF ctx = "missing"
              THEN End(Show(p, "error: folder does not exist"), "stop")
              ELSE create_index_build(p, IndexName(p.ss.selected_folder), ctx, fail)
    ELSE IF p.ss.bucket_name \in {None, ""}
         THEN End(Show(p, "error: Bucket name cannot be empty"), "stop")
         ELSE LET c == VectorStore_get_aws_config(p, aws)
                  \* S3DirectoryLoader lists the bucket through botocore, which
                  \* refuses a bucket name that is not of the pattern above
                  found == IF ValidBucket(p.ss.bucket_name) THEN ctx ELSE "missing"
              IN  IF c.out # "run" THEN c
                  ELSE create_index_build(c, IndexName(p.ss.bucket_name), found, fail)

\* get_retriever()
get_retriever(p) == p.vs

\* reset_index that leaves the selection and the loaded index as they are
reset_index_stale(p, pick) ==
    IF available_vector_db(p.disk) # {}
    THEN LET selected_vector == IF p.ss.selected_vector # None
                                THEN p.ss.selected_vector ELSE pick
         IN  IF p.disk[selected_vector] = "absent"
             THEN End(Did(p, "rmtree"), "raise")
             ELSE End([Show(Did(p, "rmtree"), "toast: has been reset")
                         EXCEPT !.disk = Rmtree(p.disk, selected_vector)], "rerun")
    ELSE Show(p, "warning: No Vector DB available.")

\* reset_index(); pick is the selectbox that is read only when
\* st.session_state.selected_vector is falsy.
reset_index(p, pick) ==
    IF available_vector_db(p.disk) # {}
    THEN LET selected_vector == IF p.ss.selected_vector # None
                                THEN p.ss.selected_vector ELSE pick
         IN  IF p.disk[selected_vector] = "absent"
             THEN End(Did(p, "rmtree"), "raise")
             ELSE End([Show(Did(p, "rmtree"), "toast: has been reset")
                         EXCEPT !.disk = Rmtree(p.disk, selected_vector),
                                !.ss.selected_vector = None,
                                !.vs = None], "rerun")
    ELSE Show(p, "warning: No Vector DB available.")

\* create_new_db with an except clause that passes
create_new_db_swallow(p, local, rootExists, subfolders, folder, text, clicked, ctx, aws, fail) ==
    LET p1 == [p EXCEPT !.ss.use_local_files = local]
        form ==
            IF local
            THEN IF ~rootExists
                 THEN End(Show(p1, "info: context_folder has been created"), "stop")
                 ELSE IF subfolders = {}
                      THEN End(Show(p1, "warning: No subfolders found"), "stop")
                      ELSE [p1 EXCEPT !.ss.selected_folder = folder]
            ELSE LET b == [p1 EXCEPT !.ss.bucket_name = text]
                 IN  IF text = ""
                     THEN End(Show(b, "warning: Bucket Name cannot be empty"), "stop")
                     ELSE IF ~ValidBucket(text)
                          THEN End(Show(b, "warning: Invalid Bucket Name"), "stop")
                          ELSE b
        made == create_index(Did(form, "create_index"), ctx, aws, fail)
    IN  IF form.out # "run" \/ ~clicked
        THEN form
        ELSE CASE made.out = "run" ->
                    End([Show(made, "toast: New Vector DB created successfully!")
                           EXCEPT !.vs = made.ret], "rerun")
               [] made.out = "raise" ->
                    End([made EXCEPT !.shown = p.shown], "run")
               [] OTHER -> made

\* create_new_db(embedding_model): the source form and the
\* 'Create Vector DB' button.
create_new_db(p, local, rootExists, subfolders, folder, text, clicked, ctx, aws, fail) ==
    LET p1 == [p EXCEPT !.ss.use_local_files = local]
        form ==
            IF local
            THEN IF ~rootExists
                 THEN End(Show(p1, "info: context_folder has been created"), "stop")
                 ELSE IF subfolders = {}
                      THEN End(Show(p1, "warning: No subfolders found"), "stop")
                      ELSE [p1 EXCEPT !.ss.selected_folder = folder]
            ELSE LET b == [p1 EXCEPT !.ss.bucket_name = text]
                 IN  IF text = ""
                     THEN End(Show(b, "warning: Bucket Name cannot be empty"), "stop")
                     ELSE IF ~ValidBucket(text)
                          THEN End(Show(b, "warning: Invalid Bucket Name"), "stop")
                          ELSE b
        made == create_index(Did(form, "create_index"), ctx, aws, fail)
    IN  IF form.out # "run" \/ ~clicked
        THEN form
        ELSE CASE made.out = "run" ->
                    End([Show(made, "toast: New Vector DB created successfully!")
                           EXCEPT !.vs = made.ret], "rerun")
               [] made.out = "raise" ->
                    [Show(made, "error: Error creating new Vector DB") EXCEPT !.out = "run"]
               [] OTHER -> made

(***************************************************************************)
(* rag_app_3/chat_app_fre.py and rag_app_3/rag_chat_app_ce.py              *)
(***************************************************************************)

\* the prompts a user submits
Prompts == {"q"}

\* search_kwargs={"k": 3}
K == 3

\* bound on the display list: no prompt is submitted beyond it
MaxMsgs == 4

\* what the retriever can return for a query: the sources of up to K chunks
Hits == UNION {[1..n -> Sources] : n \in 0..K}

UserMsg(prompt) == [role |-> "user", text |-> prompt, cited |-> FALSE, cites |-> <<>>]

\* an answer; cited says whether the "Source:" suffix was appended to it
AiMsg(cited, cites) == [role |-> "assistant", text |-> "answer", cited |-> cited, cites |-> cites]

Range(q) == {q[i] : i \in DOMAIN q}

\* the sources as retrieved, without set()
context_list_dup(hits) == {hits}

\* list(set(context.metadata['source'] for context in response['context'])):
\* every source once, in the iteration order of the set (any order)
context_list(hits) ==
    {q \in [1..Cardinality(Range(hits)) -> Sources] : Range(q) = Range(hits)}

\* setup_chain(llm, retriever): the retrieval chain or the plain one
setup_chain(use_vector_db, retriever) ==
    IF use_vector_db /\ retriever # None THEN "rag" ELSE "plain"

\* a history wrapper that records the input before the chain has answered
chain_call_eager(p, prompt, llm) ==
    LET steps == IF p.chain = "rag"
                 THEN (IF p.hist # <<>> THEN <<"contextualize">> ELSE <<>>)
                          \o <<"retrieve", "generate">>
                 ELSE <<"generate">>
        q     == [p EXCEPT !.trace = @ \o steps, !.sent = p.hist,
                           !.hist = Append(@, UserMsg(prompt))]
    IN  IF llm = "fail" THEN q
        ELSE [q EXCEPT !.hist = Append(@, AiMsg(FALSE, <<>>))]

\* RunnableWithMessageHistory around the chain: the chain is prompted with
\* the stored history, and when it returns, the input and the chain's own
\* output (response['answer'], no suffix) are appended to that history.
\* The retrieval chain rewrites the question only when there is history.
chain_call(p, prompt, llm) ==
    LET steps == IF p.chain = "rag"
                 THEN (IF p.hist # <<>> THEN <<"contextualize">> ELSE <<>>)
                          \o <<"retrieve", "generate">>
                 ELSE <<"generate">>
        q     == [p EXCEPT !.trace = @ \o steps, !.sent = p.hist]
    IN  IF llm = "fail" THEN q
        ELSE [q EXCEPT !.hist = @ \o <<UserMsg(prompt), AiMsg(FALSE, <<>>)>>]

\* handle_user_input(conversational_chain) with a submitted prompt;
\* ragBranch is the condition of the "if" inside the try.  Reading
\* response['context'] of the plain chain's AIMessage raises, which the
\* except clause reports like a failed call.
turn(p, ragBranch, prompt, llm, hits, order) ==
    LET asked  == [p EXCEPT !.msgs = Append(@, UserMsg(prompt))]
        called == chain_call(asked, prompt, llm)
        failed == End(Show(called, "info: An error occurred"), "stop")
    IN  CASE llm = "fail" -> failed
          [] ragBranch /\ p.chain = "rag" ->
                [Did(called, "cite") EXCEPT !.msgs = Append(@, AiMsg(TRUE, order)),
                                            !.hits = hits]
          [] ragBranch -> failed
          [] OTHER -> [Did(called, "stream") EXCEPT !.msgs = Append(@, AiMsg(FALSE, <<>>))]

\* a handler that looks at the checkbox only
fre_handle_user_input_checkbox(p, prompt, llm, hits, order) ==
    turn(p, p.use, prompt, llm, hits, order)

\* RAGChatAppFRE.handle_user_input: "if self.use_vector_db and self.vStore.vector_store"
fre_handle_user_input(p, prompt, llm, hits, order) ==
    turn(p, p.use /\ p.vs # None, prompt, llm, hits, order)

\* RAGChatAppCE.handle_user_input: "if st.session_state.use_vector_db_ce"
ce_handle_user_input(p, prompt, llm, hits, order) ==
    turn(p, p.use, prompt, llm, hits, order)

\* a 'Clear Chat' that empties the display list only
clear_chat_display_only(p) == End([p EXCEPT !.msgs = <<>>], "rerun")

\* clear_chat(): the 'Clear Chat' button
clear_chat(p) == End([p EXCEPT !.msgs = <<>>, !.hist = <<>>], "rerun")

\* RAGChatAppFRE.setup_sidebar, up to the retriever.  VectorStore defines no
\* create_new_db_fre, so calling it raises AttributeError.
fre_setup_sidebar(p, ev, pick, ctx, aws, fail) ==
    IF ~p.use THEN p
    ELSE IF ev = "create_new"
    THEN End([p EXCEPT !.ss.create_new_db_fre = TRUE], "rerun")
    ELSE LET a == IF p.ss.create_new_db_fre
                  THEN End(Did(p, "create_new_db_fre"), "raise")
                  ELSE load_index(p, pick)
             r == reset_index(Did(a, "reset_index"), pick)
         IN  CASE a.out # "run" -> a
               [] ev = "sync" -> IF r.out # "run" THEN r
                                 ELSE create_index(Did(r, "create_index"), ctx, aws, fail)
               [] ev = "reset" -> r
               [] OTHER -> a

\* RAGChatAppCE.setup_sidebar, up to the retriever.  VectorStore defines no
\* get_available_vector_dbs, so calling it raises AttributeError.
ce_setup_sidebar(p) ==
    LET q == [p EXCEPT !.ss.use_vector_db_ce = p.use]
    IN  IF p.use
        THEN End(Did(q, "get_available_vector_dbs"), "raise")
        ELSE [q EXCEPT !.ss.selected_vector_ce = None]

\* the state a pass starts from: __init__ builds a new VectorStore, whose
\* vector_store is None
Pass(app, use) ==
    [disk |-> uiDisk, ss |-> ss, vs |-> None, ret |-> None, shown |-> {},
     trace |-> <<>>, path |-> None, hits |-> <<>>, out |-> "run", msgs |-> messages[app], hist |-> store[app],
     use |-> use, chain |-> "none", sent |-> <<>>, cfg |-> NoCfg, aws |-> NoAws]

\* run(), after setup_sidebar: setup_chain, clear_chat, handle_user_input
fre_run(p, ev, prompt, llm, hits, order) ==
    LET c == [p EXCEPT !.chain = setup_chain(p.use, get_retriever(p))]
    IN  CASE p.out # "run" -> p
          [] ev = "clear" -> clear_chat(c)
          [] ev = "prompt" -> fre_handle_user_input(c, prompt, llm, hits, order)
          [] OTHER -> c

ce_run(p, ev, prompt, llm, hits, order) ==
    LET c == [p EXCEPT !.chain = setup_chain(p.use, IF p.use THEN get_retriever(p) ELSE None)]
    IN  CASE p.out # "run" -> p
          [] ev = "clear" -> clear_chat(c)
          [] ev = "prompt" -> ce_handle_user_input(c, prompt, llm, hits, order)
          [] OTHER -> c

(***************************************************************************)
(* rag_app_3/chat_app_nle.py                                               *)
(***************************************************************************)

\* the files a user can put into the uploader; "e" holds no text
Files == {"f1", "f2", "e"}

\* the text extracted from an uploaded file
FileText(f) == IF f = "e" THEN "" ELSE "text of " \o f

\* hashlib.md5(file_content).hexdigest()
FileHash(f) == "md5 of " \o f

\* the store may hold this many messages: no pass that would make it longer is taken
MaxStore == 6

\* f"Context from uploaded file:\n{uploaded_file_content}", as a human message
CtxMsg(content) == [role |-> "user", text |-> "Context from uploaded file:" \o content,
                    cited |-> FALSE, cites |-> <<>>]

\* handle_file_upload(): a file whose hash is the stored one is not read again
handle_file_upload(p) ==
    LET f == p.ss.file_uploader
    IN  IF f # None /\ FileHash(f) # p.ss.uploaded_file_hash
        THEN [Show(Did(p, "extract"), "success: File uploaded and processed")
                EXCEPT !.ss.uploaded_file_content = FileText(f),
                       !.ss.uploaded_file_hash = FileHash(f)]
        ELSE p

\* ChatAppNLE.setup_sidebar: the toggle, then the uploader when it is on.  A
\* widget that a pass does not render keeps no value.
nle_setup_sidebar(p, ev, file) ==
    LET on == IF ev = "toggle" THEN ~p.ss.use_file_upload ELSE p.ss.use_file_upload
        up == CASE ~on           -> None
                [] ev = "upload" -> file
                [] ev = "remove" -> None
                [] OTHER         -> p.ss.file_uploader
    IN  IF ev = "toggle"
        THEN End([p EXCEPT !.ss.use_file_upload = on], "rerun")
        ELSE IF on THEN handle_file_upload([p EXCEPT !.ss.file_uploader = up])
             ELSE [p EXCEPT !.ss.file_uploader = None]

\* a 'Clear Chat' that forgets the content but keeps its hash
nle_clear_chat_keep_hash(p) ==
    End([p EXCEPT !.msgs = <<>>, !.hist = <<>>,
                  !.ss.uploaded_file_content = None], "rerun")

\* ChatAppNLE.clear_chat(): the 'Clear Chat' button
nle_clear_chat(p) ==
    End([p EXCEPT !.msgs = <<>>, !.hist = <<>>,
                  !.ss.uploaded_file_content = None,
                  !.ss.uploaded_file_hash = None], "rerun")

\* a handler that sends the file context only together with a prompt
nle_handle_user_input_with_prompt(p, ev, prompt, llmCtx, llm) ==
    LET content == p.ss.uploaded_file_content
        hasCtx  == content \notin {None, ""} /\ ev = "prompt"
        ctx     == IF ~hasCtx THEN p
                   ELSE IF llmCtx = "fail"
                        THEN End(Did(p, "context_invoke"), "raise")
                        ELSE [Did(p, "context_invoke")
                                EXCEPT !.hist = @ \o <<CtxMsg(content), AiMsg(FALSE, <<>>)>>]
        asked   == [ctx EXCEPT !.msgs = Append(@, UserMsg(prompt))]
        called  == chain_call(asked, prompt, llm)
    IN  CASE ctx.out # "run" \/ ev # "prompt" -> ctx
          [] llm = "fail" -> End(Show(called, "info: An error occurred"), "stop")
          [] OTHER -> [Did(called, "stream") EXCEPT !.msgs = Append(@, AiMsg(FALSE, <<>>))]

\* ChatAppNLE.handle_user_input: the context of the uploaded file is sent
\* through the chain, outside any try, whenever there is one; then the prompt
nle_handle_user_input(p, ev, prompt, llmCtx, llm) ==
    LET content == p.ss.uploaded_file_content
        hasCtx  == content \notin {None, ""}
        ctx     == IF ~hasCtx THEN p
                   ELSE IF llmCtx = "fail"
                        THEN End(Did(p, "context_invoke"), "raise")
                        ELSE [Did(p, "context_invoke")
                                EXCEPT !.hist = @ \o <<CtxMsg(content), AiMsg(FALSE, <<>>)>>]
        asked   == [ctx EXCEPT !.msgs = Append(@, UserMsg(prompt))]
        called  == chain_call(asked, prompt, llm)
    IN  CASE ctx.out # "run" \/ ev # "prompt" -> ctx
          [] llm = "fail" -> End(Show(called, "info: An error occurred"), "stop")
          [] OTHER -> [Did(called, "stream") EXCEPT !.msgs = Append(@, AiMsg(FALSE, <<>>))]

\* ChatAppNLE.run()
nle_run(p, ev, file, prompt, llmCtx, llm) ==
    LET s == nle_setup_sidebar(p, ev, file)
        c == [s EXCEPT !.chain = "plain"]
    IN  CASE s.out # "run" -> s
          [] ev = "clear" -> nle_clear_chat(c)
          [] OTHER -> nle_handle_user_input(c, ev, prompt, llmCtx, llm)

\* what a pass leaves behind
Commit(app, page, ev, p) ==
    LET out == IF p.out = "raise" THEN "exception" ELSE p.out
    IN  /\ uiDisk' = p.disk
        /\ ss' = p.ss
        /\ vector_store' = p.vs
        /\ rerun' = IF out = "rerun" THEN page ELSE None
        /\ uiLast' = [page |-> page, event |-> ev, out |-> out, shown |-> p.shown,
                      trace |-> p.trace, path |-> p.path, hits |-> p.hits, chain |-> p.chain, use |-> p.use,
                      sent |-> p.sent, cfg |-> p.cfg, aws |-> p.aws]
        /\ messages' = [messages EXCEPT ![app] = p.msgs]
        /\ store' = [store EXCEPT ![app] = p.hist]
        /\ UNCHANGED <<program, cliVars, writers>>

LifecycleEvents == {"none", "toggle", "create_new", "sync", "reset"}

ChatEvents == {"none", "toggle", "clear", "prompt"}

\* a widget event reaches a page only when no rerun is pending, and a
\* pending rerun runs the page that asked for it
Arrives(page, ev) ==
    /\ rerun \in {None, page}
    /\ rerun = page => ev = "none"

\* one pass of the Financial Risk Expert page: RAGChatAppFRE() and run()
FrePass(ev, pick, ctx, aws, fail, prompt, llm, hits, order) ==
    /\ \/ program = "ui" /\ ev \in LifecycleEvents
       \/ program = "fre" /\ ev \in ChatEvents
    /\ Arrives("fre", ev)
    /\ ev = "prompt" => Len(messages["fre"]) + 2 <= MaxMsgs
    /\ pick \in available_vector_db(uiDisk) \/ (available_vector_db(uiDisk) = {} /\ pick = None)
    /\ order \in context_list(hits)
    /\ LET use == IF ev = "toggle" THEN ~ss.use_vector_db_toggle
                  ELSE ss.use_vector_db_toggle
           p0  == [Pass("fre", use) EXCEPT !.ss.use_vector_db_toggle = use]
           p1  == fre_setup_sidebar(p0, ev, pick, ctx, aws, fail)
       IN  Commit("fre", "fre", ev, fre_run(p1, ev, prompt, llm, hits, order))

\* one pass of the Programming Language Expert page: RAGChatAppCE() and run()
CePass(ev, prompt, llm, hits, order) ==
    /\ program = "ce" /\ ev \in ChatEvents
    /\ Arrives("ce", ev)
    /\ ev = "prompt" => Len(messages["ce"]) + 2 <= MaxMsgs
    /\ order \in context_list(hits)
    /\ LET use == IF ev = "toggle" THEN ~ss.use_vector_db_ce ELSE ss.use_vector_db_ce
           p1  == ce_setup_sidebar(Pass("ce", use))
       IN  Commit("ce", "ce", ev, ce_run(p1, ev, prompt, llm, hits, order))

\* one pass of a page that shows the creation form: VectorStore() and
\* create_new_db(embedding_model)
CreatePass(local, rootExists, subfolders, folder, text, clicked, ctx, aws, fail) ==
    /\ program = "ui"
    /\ Arrives("create", IF clicked THEN "create" ELSE "none")
    /\ folder \in subfolders \/ (subfolders = {} /\ folder = None)
    /\ Commit("fre", "create", IF clicked THEN "create" ELSE "none",
              create_new_db(Pass("fre", FALSE), local, rootExists, subfolders,
                            folder, text, clicked, ctx, aws, fail))

\* one pass of the Natural Language Expert page: ChatAppNLE() and run()
NlePass(ev, file, prompt, llmCtx, llm) ==
    /\ program = "nle"
    /\ Arrives("nle", ev)
    /\ ev \in {"upload", "remove"} => ss.use_file_upload
    /\ ev = "prompt" => Len(messages["nle"]) + 2 <= MaxMsgs
    /\ LET r == nle_run(Pass("nle", FALSE), ev, file, prompt, llmCtx, llm)
       IN  /\ Len(r.hist) <= MaxStore
           /\ Commit("nle", "nle", ev, r)

(***************************************************************************)
(* Two browser sessions of the same server.  Streamlit runs the script of  *)
(* each session in a thread of its own, all in one working directory, so   *)
(* the sessions share <cwd>/vector_store; a build is not one step here but *)
(* the steps of _create_index: load, split and embed, then save_local,     *)
(* which makes the directory and writes into it.                           *)
(***************************************************************************)
Sessions == {"s1", "s2"}

\* create_new_db: the 'Create Vector DB' button of a session whose script is
\* not running; the button is never disabled and nothing is locked
SessionClick(s, source) ==
    /\ program = "sessions"
    /\ writers[s].pc = "idle"
    /\ writers' = [writers EXCEPT ![s] = [pc |-> "building", name |-> IndexName(source)]]
    /\ UNCHANGED <<program, cliVars, uiDisk, ss, vector_store, rerun, uiLast, messages, store>>

\* _create_index: documents loaded, split and embedded; save_local starts to
\* write
SessionSave(s) ==
    /\ program = "sessions"
    /\ writers[s].pc = "building"
    /\ writers' = [writers EXCEPT ![s].pc = "saving"]
    /\ uiDisk' = SaveLocal(uiDisk, writers[s].name, "save_after_mkdir")
    /\ UNCHANGED <<program, cliVars, ss, vector_store, rerun, uiLast, messages, store>>

\* _create_index: save_local has written both files; the pass ends
SessionDone(s) ==
    /\ program = "sessions"
    /\ writers[s].pc = "saving"
    /\ writers' = [writers EXCEPT ![s] = [pc |-> "idle", name |-> None]]
    /\ uiDisk' = SaveLocal(uiDisk, writers[s].name, "none")
    /\ UNCHANGED <<program, cliVars, ss, vector_store, rerun, uiLast, messages, store>>

SessionNext ==
    \/ \E s \in Sessions, source \in Sources : SessionClick(s, source)
    \/ \E s \in Sessions : SessionSave(s)
    \/ \E s \in Sessions : SessionDone(s)

Apps == {"fre", "ce", "nle"}

UiInit ==
    /\ uiDisk \in [UiNames -> DirStates]
    /\ program \in {"cli", "ui", "nle", "sessions"} => uiDisk = [n \in UiNames |-> "absent"]
    /\ ss = [selected_vector |-> None, use_local_files |-> FALSE,
             selected_folder |-> None, bucket_name |-> None,
             create_new_db_fre |-> FALSE, use_vector_db_toggle |-> FALSE,
             use_vector_db_ce |-> FALSE, selected_vector_ce |-> None,
             use_file_upload |-> FALSE, file_uploader |-> None,
             uploaded_file_content |-> None, uploaded_file_hash |-> None]
    /\ vector_store = None
    /\ rerun = None
    /\ uiLast = [page |-> None, event |-> "none", out |-> "run", shown |-> {},
                 trace |-> <<>>, path |-> None, hits |-> <<>>, chain |-> "none", use |-> FALSE,
                 sent |-> <<>>, cfg |-> NoCfg, aws |-> NoAws]
    /\ messages = [a \in Apps |-> <<>>]
    /\ store = [a \in Apps |-> <<>>]
    /\ writers = [s \in Sessions |-> [pc |-> "idle", name |-> None]]

\* what index creation can meet: <<the source, the AWS values, where it
\* fails>>; a failure needs a source with documents in it
BuildCases ==
    {<<"missing", AwsAllEnv, "none">>, <<"empty", AwsAllEnv, "none">>}
        \cup {<<"pdfs", aws, "none">> : aws \in AwsCases}
        \cup {<<"pdfs", AwsAllEnv, f>> : f \in Failures}

\* the inputs a pass does not read are fixed, so that each pass is
\* enumerated once
UiNext ==
    \/ \E ev \in {"none", "toggle", "create_new", "reset", "clear"},
          pick \in UiNames \cup {None} :
            FrePass(ev, pick, "pdfs", AwsAllEnv, "none", "q", "ok", <<>>, <<>>)
    \/ \E pick \in UiNames \cup {None}, c \in BuildCases :
            FrePass("sync", pick, c[1], c[2], c[3], "q", "ok", <<>>, <<>>)
    \/ \E pick \in UiNames \cup {None}, prompt \in Prompts, llm \in {"ok", "fail"},
          hits \in Hits :
            \E order \in context_list(hits) :
                FrePass("prompt", pick, "pdfs", AwsAllEnv, "none", prompt, llm, hits, order)
    \/ \E ev \in {"none", "toggle", "clear"} : CePass(ev, "q", "ok", <<>>, <<>>)
    \/ \E prompt \in Prompts, llm \in {"ok", "fail"}, hits \in Hits :
            \E order \in context_list(hits) : CePass("prompt", prompt, llm, hits, order)
    \/ \E ev \in {"none", "toggle", "clear", "remove"}, llmCtx \in {"ok", "fail"} :
            NlePass(ev, None, "q", llmCtx, "ok")
    \/ \E file \in Files, llmCtx \in {"ok", "fail"} :
            NlePass("upload", file, "q", llmCtx, "ok")
    \/ \E prompt \in Prompts, llmCtx \in {"ok", "fail"}, llm \in {"ok", "fail"} :
            NlePass("prompt", None, prompt, llmCtx, llm)
    \/ \E rootExists \in BOOLEAN, folder \in Sources \cup {None} :
            CreatePass(TRUE, rootExists, IF folder = None THEN {} ELSE Sources, folder,
                       "", FALSE, "pdfs", AwsAllEnv, "none")
    \/ \E text \in BucketInputs :
            CreatePass(FALSE, TRUE, {}, None, text, FALSE, "pdfs", AwsAllEnv, "none")
    \/ \E folder \in Sources, c \in {x \in BuildCases : x[2] = AwsAllEnv} :
            CreatePass(TRUE, TRUE, Sources, folder, "", TRUE, c[1], c[2], c[3])
    \/ \E text \in {t \in BucketInputs : ValidBucket(t)}, c \in BuildCases :
            CreatePass(FALSE, TRUE, {}, None, text, TRUE, c[1], c[2], c[3])

Init ==
    /\ program \in {"cli", "ui", "fre", "ce", "nle", "sessions"}
    /\ CliInit
    /\ UiInit

Next == CliNext \/ UiNext \/ SessionNext

Spec == Init /\ [][Next]_vars

(***************************************************************************)
(* The claims                                                              *)
(***************************************************************************)

\* a step of the script in which the pending create or resync died of an exception
CliBuildFailed == cliPc = "ask_folder" /\ cliPc' = "crashed"

\* a pass in which _create_index raised
UiBuildFailed == "error: Error in _create_index" \in uiLast'.shown /\ uiLast' # uiLast

\* C1: when index creation fails (document loading, chunking, embedding or
\* saving), in _create_index or in create_vector_db, no directory exists
\* under the index root afterwards that did not exist before.
C1_FailedCreateLeavesNoDirectory ==
    [][/\ CliBuildFailed =>
            \A n \in CliNames : cliDisk[n] = "absent" => cliDisk'[n] = "absent"
       /\ UiBuildFailed =>
            \A n \in UiNames : uiDisk[n] = "absent" => uiDisk'[n] = "absent"]_vars

\* C2: when the create step of a resync of a ready index fails, the
\* original index is still persisted and loadable afterwards.
C2_FailedResyncKeepsIndex ==
    [][/\ (CliBuildFailed /\ cliOp = "resync" /\ cliDisk[cliReq.name] = "ready")
            => cliDisk'[cliReq.name] = "ready"
       /\ (UiBuildFailed /\ uiLast'.event = "sync")
            => \A n \in UiNames : uiDisk[n] = "ready" => uiDisk'[n] = "ready"]_vars

\* C3: a resync of an existing index in which no load or embedding step
\* fails executes the create step, and an index of that name is persisted
\* again when the action ends: in the script, when main() is back at its
\* menu; in the page, when the pass and the rerun it asked for are over.
C3_ResyncRebuilds ==
    [][/\ (cliPc = "menu" /\ "rmtree" \in Range(cliTrace) /\ cliReq.choice \in {"1", "2"}
            => cliDisk[cliReq.name] = "ready")'
       /\ (uiLast.event = "sync" /\ "rmtree" \in Range(uiLast.trace) /\ rerun = "fre")
            => "save" \in Range(uiLast'.trace)]_vars

\* C4: resetting a name that has no directory raises nothing, reports that
\* the index does not exist, and leaves the directories under the index root
\* as they were (delete_vector_db on a missing name; reset_index with no
\* directory to reset); deleting the same name a second time changes nothing.
C4_ResetOfAbsentIsNoOp ==
    [][/\ (cliPc = "menu" /\ cliReq'.choice = "3" /\ cliDisk[cliReq'.name] = "absent")
            => /\ cliDisk' = cliDisk
               /\ cliPc' = "menu" /\ cliExc' = "none"
               /\ cliLog' = {<<"error", "does not exist">>}
       /\ (cliPc = "menu" /\ cliReq.choice = "3" /\ cliReq' = cliReq)
            => cliDisk' = cliDisk /\ cliPc' = "menu"
       /\ (uiLast' # uiLast /\ uiLast'.event = "reset"
                /\ "reset_index" \in Range(uiLast'.trace)
                /\ available_vector_db(uiDisk) = {})
            => /\ uiDisk' = uiDisk
               /\ uiLast'.out = "run"
               /\ "warning: No Vector DB available." \in uiLast'.shown]_vars

\* C4 happens: a delete of a missing name was served while another index exists
C4_Witness ==
    /\ cliReq.choice = "3" /\ cliPc = "menu"
    /\ <<"error", "does not exist">> \in cliLog
    /\ Dirs(cliDisk) # {}

\* C5: on every create path (menu choice 1, the 'Create Vector DB' button)
\* an index that exists under the name is never written over: save_local
\* runs on an existing directory only after the user confirmed a resync.
C5_CreateNeverOverwrites ==
    [][/\ \A n \in UiNames :
            (uiLast' # uiLast /\ uiLast'.page = "create" /\ uiLast'.path = n)
                => uiDisk[n] = "absent"
       /\ (cliTrace' # cliTrace /\ cliReq'.choice = "1" /\ "save" \in Range(cliTrace')
                /\ cliDisk[cliReq'.name] # "absent")
            => "confirm" \in Range(cliTrace')]_vars

\* the app a page keeps its conversation for
AppOf(page) == IF page \in {"ce", "nle"} THEN page ELSE "fre"

LastOf(q) == q[Len(q)]

LoadExpected ==
    /\ uiLast.page \in {"fre", "ce"} /\ uiLast.use
    /\ uiLast.event \in {"none", "toggle", "prompt"}
    /\ ~ss.create_new_db_fre
    /\ Dirs(uiDisk) # {} /\ \A n \in Dirs(uiDisk) : uiDisk[n] = "ready"

\* C8: a load never ends in ready for a name that has no complete index on
\* disk, and loading a persisted index that is not loaded yet ends in ready:
\* vector_store is that index.
C8_LoadEndsReadyOrFails ==
    /\ (vector_store # None /\ "load_local" \in Range(uiLast.trace))
            => uiDisk[vector_store] = "ready"
    /\ LoadExpected => vector_store \in Dirs(uiDisk)

\* C9: a turn that is sent without retrieval runs neither the query
\* rewriting nor the retriever, and when the user has retrieval switched on
\* the page says in that pass that no vector DB is available.
C9_DegradedModeIsVisible ==
    (uiLast.event = "prompt" /\ uiLast.chain = "plain"
            /\ "generate" \in Range(uiLast.trace))
        => /\ Range(uiLast.trace) \cap {"contextualize", "retrieve", "cite"} = {}
           /\ uiLast.use => "warning: No Vector DB available" \in uiLast.shown

\* C9 happens: a turn was answered without retrieval while retrieval was on
C9_Witness ==
    /\ uiLast.event = "prompt" /\ uiLast.use /\ uiLast.out = "run"
    /\ "stream" \in Range(uiLast.trace)
    /\ ~LastOf(messages[AppOf(uiLast.page)]).cited

\* the turn of the last pass was retrieval-augmented
RagTurn == uiLast.event = "prompt" /\ "cite" \in Range(uiLast.trace)

\* q lists every retrieved source exactly once
ListsOnce(q, hits) == Range(q) = Range(hits) /\ Len(q) = Cardinality(Range(hits))

PassEnded == <<uiLast, messages, store>>' # <<uiLast, messages, store>>

\* the app whose page the pass that just ended ran
PassApp == AppOf(uiLast'.page)

\* q begins with all of r
StartsWith(q, r) == Len(q) >= Len(r) /\ SubSeq(q, 1, Len(r)) = r

PagesResolveAws ==
    (PassEnded /\ "get_aws_config" \in Range(uiLast'.trace))
        => LET aws == uiLast'.aws
           IN  IF \A k \in 1..3 : aws.env[k] # "" \/ aws.typed[k] # ""
               THEN uiLast'.cfg = [k \in 1..3 |-> IF aws.env[k] # "" THEN aws.env[k]
                                                 ELSE aws.typed[k]]
               ELSE /\ uiLast'.cfg = NoCfg /\ uiLast'.out = "stop"
                    /\ \E k \in 1..3 : ("warning: Invalid " \o AwsKeys[k]) \in uiLast'.shown
                    /\ \A c \in FolderStates : ("load:" \o c) \notin Range(uiLast'.trace)

\* C12: each of the three values is the environment's when the environment
\* has it and the one asked for otherwise; when a value is in neither the
\* action ends in a configuration error and no document load is attempted;
\* when every value is found the resolver returns a configuration holding
\* all three, in the pages (_get_aws_config) and in the script
\* (get_aws_config).
C12_AwsConfigResolved ==
    [][/\ PagesResolveAws
       /\ (cliTrace' # cliTrace /\ "get_aws_config:present" \in Range(cliTrace'))
            => cliExc' = "none"
       /\ (cliTrace' # cliTrace /\ "get_aws_config:absent" \in Range(cliTrace'))
            => "load:s3" \notin Range(cliTrace')]_vars

\* the pages alone resolve as C12 says
PagesResolveAwsAlways == [][PagesResolveAws]_vars

\* C13: when _create_index raises inside create_new_db, the page shows the
\* error (from _create_index and from create_new_db), the VectorStore's
\* vector_store keeps the value it had (None, the object is new in the pass),
\* and the pass neither reports success nor reruns; a build that raises on
\* the other paths ends the pass, or the script, in that exception.
C13_CreateErrorsSurface ==
    [][/\ (PassEnded /\ uiLast'.page = "create" /\ uiLast'.event = "create"
                /\ Range(uiLast'.trace) \cap {"load:missing", "load:pdfs"} # {}
                /\ "toast: Index created and saved" \notin uiLast'.shown)
            => /\ "error: Error in _create_index" \in uiLast'.shown
               /\ "error: Error creating new Vector DB" \in uiLast'.shown
               /\ vector_store' = None
               /\ "toast: New Vector DB created successfully!" \notin uiLast'.shown
               /\ uiLast'.out = "run" /\ rerun' = None
       /\ (UiBuildFailed /\ uiLast'.page # "create") => uiLast'.out = "exception"
       /\ CliBuildFailed => cliExc' # "none"]_vars

\* C13 happens: the button was clicked and the build raised after it had
\* made the directory
C13_Witness ==
    /\ uiLast.page = "create" /\ uiLast.event = "create"
    /\ "error: Error creating new Vector DB" \in uiLast.shown
    /\ \E n \in UiNames : uiDisk[n] = "partial"

\* the sessions that are building the index of name n
BuildersOf(n) == {s \in Sessions : writers[s].pc # "idle" /\ writers[s].name = n}

\* C14: builds of one index name are serialized: while a build of a name is
\* in flight no second build of that name starts, so at any time at most one
\* writer is at work on the directory of a name.
C14_OneBuildPerName ==
    \A n \in UiNames : Cardinality(BuildersOf(n)) <= 1

\* the source the pass that just ended built from
PassSource == IF ss'.use_local_files THEN ss'.selected_folder ELSE ss'.bucket_name

\* every directory a page wrote is <source>-index, directly under the index root
PagesNameIndexes ==
    (PassEnded /\ "save" \in Range(uiLast'.trace))
        => /\ uiLast'.path = IndexName(PassSource)
           /\ uiLast'.path \in UiNames
           /\ PassSource \in Sources

\* C15: every directory a create path writes is named after the document
\* source it was built from (the folder or bucket name) followed by the
\* "-index" suffix, and lies directly under the index root: in the pages
\* (_create_index) and in the script (main, create_vector_db).
C15_IndexNamedAfterSource ==
    [][/\ PagesNameIndexes
       /\ (cliTrace' # cliTrace /\ "save" \in Range(cliTrace'))
            => \E s \in Sources : /\ ("folder:" \o s) \in Range(cliTrace')
                                  /\ cliReq'.name = IndexName(s)]_vars

\* the pages alone name their indexes as C15 says
PagesNameIndexesAlways == [][PagesNameIndexes]_vars

\* C16: a reset of an existing index removes exactly that index: after
\* reset_index the directory that was loaded and selected in the pass is gone,
\* every other directory under the index root is as it was, and
\* session_state.selected_vector and the VectorStore's vector_store are None;
\* after delete_vector_db on an existing name that directory is gone and
\* every other one is as it was.
C16_ResetRemovesExactlyOne ==
    [][/\ (PassEnded /\ "rmtree" \in Range(uiLast'.trace))
            => /\ \E n \in UiNames : /\ uiDisk[n] = "ready"
                                     /\ uiDisk' = [uiDisk EXCEPT ![n] = "absent"]
               /\ ss'.selected_vector = None
               /\ vector_store' = None
               /\ uiLast'.out = "rerun"
       /\ (cliPc = "menu" /\ cliReq'.choice = "3" /\ cliDisk[cliReq'.name] # "absent")
            => /\ cliDisk' = [cliDisk EXCEPT ![cliReq'.name] = "absent"]
               /\ cliLog' = {<<"info", "deleted">>}
               /\ cliPc' = "menu"]_vars

\* C16 happens: one of two indexes was reset and the other is still there
C16_Witness ==
    /\ uiLast.event = "reset" /\ "rmtree" \in Range(uiLast.trace)
    /\ \E n \in UiNames : uiDisk[n] = "ready"

\* every a in q comes before every b in q
Before(q, a, b) == \A i, j \in DOMAIN q : (q[i] = a /\ q[j] = b) => i < j

\* C17: resync deletes first.  In the script the directory is removed only
\* after load_documents has returned documents and before chunking, embedding
\* and saving, so a rebuild that fails has already lost the old index; a
\* load that fails, and a resync of a name without a directory, change
\* nothing, and the latter loads nothing.  In the pages 'Sync VectorDB'
\* removes the directory before any build.  No path writes anywhere but into
\* the directory of the name itself.
C17_ResyncDeletesFirst ==
    [][/\ (cliTrace' # cliTrace /\ "rmtree" \in Range(cliTrace')
                /\ cliReq'.choice \in {"1", "2"})
            => /\ "load:pdfs" \in Range(cliTrace')
               /\ Before(cliTrace', "load:pdfs", "rmtree")
               /\ \A st \in {"split", "embed", "save"} : Before(cliTrace', "rmtree", st)
               /\ cliExc' # "none" => cliDisk'[cliReq'.name] # "ready"
       /\ (cliPc = "ask_folder" /\ cliOp = "resync" /\ cliPc' # "ask_folder"
                /\ "rmtree" \notin Range(cliTrace'))
            => cliDisk' = cliDisk /\ cliExc' # "none"
       /\ (cliPc = "menu" /\ cliReq'.choice = "2" /\ cliDisk[cliReq'.name] = "absent")
            => /\ cliDisk' = cliDisk /\ cliPc' = "menu"
               /\ "load_documents" \notin Range(cliTrace')
               /\ cliLog' = {<<"error", "does not exist">>}
       /\ \A n \in CliNames : cliDisk'[n] # cliDisk[n] => n = cliReq'.name
       /\ (PassEnded /\ uiLast'.event = "sync" /\ "rmtree" \in Range(uiLast'.trace))
            => "save" \notin Range(uiLast'.trace)
       /\ PassEnded => \A n \in UiNames :
                          (uiDisk'[n] # uiDisk[n] /\ uiDisk'[n] # "absent") => n = uiLast'.path]_vars

\* C17 happens: a resync removed the index and then failed to rebuild it
C17_Witness ==
    /\ cliReq.choice = "2" /\ cliPc = "crashed"
    /\ "rmtree" \in Range(cliTrace)
    /\ cliDisk[cliReq.name] = "absent"

\* the pass that ended was a 'Clear Chat' that took effect
Cleared == PassEnded /\ uiLast'.event = "clear" /\ uiLast'.out = "rerun"

\* C18: after 'Clear Chat' (CE, FRE, NLE) the display list and the history
\* store of the app are empty, and a prompt is sent to the provider with
\* exactly the store as it stood when the pass started (in NLE followed by
\* the file context sent in the same pass), so the first prompt after a
\* clear carries no earlier turn.  The clear pass changes no other session
\* key, except that NLE sets the uploaded content and hash to None (the
\* selected index name is written by load_index earlier in an FRE pass).
C18_ClearChatStartsFresh ==
    [][/\ Cleared
            => /\ messages'[PassApp] = <<>>
               /\ store'[PassApp] = <<>>
               /\ \A a \in Apps \ {PassApp} : messages'[a] = messages[a] /\ store'[a] = store[a]
               /\ uiDisk' = uiDisk
               /\ ss' = [ss EXCEPT
                           !.selected_vector =
                               IF PassApp = "fre" THEN ss'.selected_vector ELSE @,
                           !.uploaded_file_content = IF PassApp = "nle" THEN None ELSE @,
                           !.uploaded_file_hash = IF PassApp = "nle" THEN None ELSE @]
       /\ (PassEnded /\ uiLast'.event = "prompt" /\ "generate" \in Range(uiLast'.trace))
            => uiLast'.sent =
                 store[PassApp] \o
                    (IF "context_invoke" \in Range(uiLast'.trace)
                     THEN <<CtxMsg(ss'.uploaded_file_content), AiMsg(FALSE, <<>>)>>
                     ELSE <<>>)]_vars

\* C18 happens: a clear in NLE has just forgotten an uploaded file that is
\* still in the uploader
C18_Witness ==
    /\ uiLast.page = "nle" /\ uiLast.event = "clear" /\ uiLast.out = "rerun"
    /\ ss.file_uploader # None
    /\ ss.uploaded_file_hash = None
    /\ messages["nle"] = <<>> /\ store["nle"] = <<>>

\* the pass that ended was a prompt in CE or FRE that reached the provider
ProviderTurn ==
    /\ PassEnded /\ uiLast'.event = "prompt"
    /\ uiLast'.page \in {"ce", "fre"}
    /\ "generate" \in Range(uiLast'.trace)

PromptPass ==
    /\ PassEnded /\ uiLast'.event = "prompt"
    /\ uiLast'.page = "nle" \/ "generate" \in Range(uiLast'.trace)

\* the provider answered the prompt of the pass: the history wrapper stored
\* the prompt and the answer
Answered ==
    /\ "generate" \in Range(uiLast'.trace)
    /\ store'[PassApp] # uiLast'.sent

\* the display list of app a after the step, given that the step is a turn
\* or not
TurnAppends(a) ==
    LET m == messages[a]
        n == messages'[a]
    IN  /\ StartsWith(n, m)
        /\ Len(n) = Len(m) + (IF Answered THEN 2 ELSE 1)
        /\ \E pr \in Prompts : n[Len(m) + 1] = UserMsg(pr)
        /\ Answered => n[Len(m) + 2].role = "assistant"
        /\ ~Answered => LastOf(n).role = "user"

\* a step leaves every display list alone, or is a 'Clear Chat' of the list
ListKept(a) ==
    \/ messages'[a] = messages[a]
    \/ Cleared /\ a = PassApp /\ messages'[a] = <<>>

\* C20: a submitted prompt appends one user entry to the display list, and
\* one assistant entry directly after it exactly when the provider answered;
\* nothing else changes a display list but 'Clear Chat', so after a failed
\* turn the list ends with a user entry.
C20_OneUserEntryPerPrompt ==
    [][\A a \in Apps :
          IF PromptPass /\ a = PassApp THEN TurnAppends(a) ELSE ListKept(a)]_vars

\* the file context of NLE, sent before the prompt is read, was refused
ContextRefused ==
    /\ uiLast'.page = "nle"
    /\ "context_invoke" \in Range(uiLast'.trace)
    /\ uiLast'.out = "exception"

\* C20 holds for every prompt but the one submitted in NLE when the provider
\* refuses the file context
PromptsAppendElsewhere ==
    [][\A a \in Apps :
          IF PromptPass /\ a = PassApp /\ ~ContextRefused
          THEN TurnAppends(a)
          ELSE ListKept(a)]_vars

\* no prompt of NLE is lost with the file context after an earlier pass has
\* sent that context and shown the chat input
PromptLostNever ==
    ~(/\ uiLast.page = "nle" /\ uiLast.event = "prompt"
      /\ uiLast.out = "exception"
      /\ "context_invoke" \in Range(uiLast.trace)
      /\ store["nle"] # <<>>)

\* how many times step x occurs in the trace q
Count(q, x) == Cardinality({i \in DOMAIN q : q[i] = x})

\* the pass that ended was a pass of NLE that reached handle_user_input: the
\* toggle and 'Clear Chat' rerun before it
NleHandled == PassEnded /\ uiLast'.page = "nle" /\ uiLast'.out # "rerun"

\* the exchange the file context leaves in the history
CtxExchange(content) == <<CtxMsg(content), AiMsg(FALSE, <<>>)>>

\* C21: in every pass of NLE that reaches handle_user_input with
\* uploaded_file_content set (to a text that is not empty, the test being
\* Python's truth of the value), the chain is invoked exactly once with the
\* file context, before the prompt is sent and whether or not there is a
\* prompt, and when the provider answers the history grows by one context
\* exchange in that pass; with no content there is no such call.
C21_ContextSentEveryPass ==
    [][NleHandled
         => LET content == ss'.uploaded_file_content
                t       == uiLast'.trace
            IN  IF content \in {None, ""}
                THEN /\ Count(t, "context_invoke") = 0
                     /\ uiLast'.event # "prompt" => store'["nle"] = store["nle"]
                ELSE /\ Count(t, "context_invoke") = 1
                     /\ Before(t, "context_invoke", "generate")
                     /\ uiLast'.out = "exception"
                          => store'["nle"] = store["nle"] /\ "generate" \notin Range(t)
                     /\ uiLast'.out # "exception"
                          => /\ StartsWith(store'["nle"], store["nle"] \o CtxExchange(content))
                             /\ uiLast'.event # "prompt"
                                  => store'["nle"] = store["nle"] \o CtxExchange(content)]_vars

\* C21 happens: with no prompt on the display list, the history holds the
\* context of the uploaded file twice
C21_Witness ==
    /\ uiLast.page = "nle" /\ uiLast.event = "none"
    /\ messages["nle"] = <<>>
    /\ ss.uploaded_file_content = FileText("f1")
    /\ store["nle"] = CtxExchange(FileText("f1")) \o CtxExchange(FileText("f1"))

\* content and hash in the session state r are both None or come from one file
Paired(r) ==
    \/ r.uploaded_file_content = None /\ r.uploaded_file_hash = None
    \/ \E f \in Files : /\ r.uploaded_file_content = FileText(f)
                        /\ r.uploaded_file_hash = FileHash(f)

\* C22: in NLE a file is parsed exactly when the uploader holds one whose MD5
\* hash is not the stored uploaded_file_hash; content and hash are always both
\* None or both taken from the same file; a pass that parses nothing and is
\* no 'Clear Chat' leaves both as they were; and the pass after a 'Clear
\* Chat' parses the file that is still in the uploader again.
C22_ParsedOnlyOnNewHash ==
    [][program = "nle"
         => LET f         == ss'.file_uploader
                extracted == "extract" \in Range(uiLast'.trace)
                cleared   == uiLast'.event = "clear" /\ uiLast'.out = "rerun"
            IN  /\ Paired(ss) /\ Paired(ss')
                /\ extracted <=> /\ uiLast'.event # "toggle"
                                 /\ ss'.use_file_upload
                                 /\ f # None
                                 /\ FileHash(f) # ss.uploaded_file_hash
                /\ Count(uiLast'.trace, "extract") <= 1
                /\ (extracted /\ ~cleared)
                     => /\ ss'.uploaded_file_content = FileText(f)
                        /\ ss'.uploaded_file_hash = FileHash(f)
                /\ (~extracted /\ ~cleared)
                     => /\ ss'.uploaded_file_content = ss.uploaded_file_content
                        /\ ss'.uploaded_file_hash = ss.uploaded_file_hash
                /\ (/\ uiLast.page = "nle" /\ uiLast.event = "clear"
                    /\ uiLast.out = "rerun" /\ ss.file_uploader # None)
                     => /\ extracted
                        /\ f = ss.file_uploader
                        /\ ss'.uploaded_file_content = FileText(f)]_vars

\* C22 happens: the pass after a 'Clear Chat' has parsed the file that was
\* still in the uploader (no upload event, yet an extraction)
C22_Witness ==
    /\ uiLast.page = "nle" /\ uiLast.event = "none"
    /\ "extract" \in Range(uiLast.trace)
    /\ ss.file_uploader = "f1"
    /\ ss.uploaded_file_hash = FileHash("f1")

\* the steps of create_vector_db and resync_vector_db that need documents
BuildSteps == {"rmtree", "split", "embed", "save"}

\* the script has just gone through load_documents (choice 1 or 2)
LoadCalled == cliReq'.choice \in {"1", "2"} /\ "load_documents" \in Range(cliTrace')

\* nothing is built without documents: every build step of a create or a
\* resync comes after a load that returned at least one document
BuiltFromDocuments ==
    LoadCalled => \A st \in BuildSteps :
                     st \in Range(cliTrace')
                       => /\ "load:pdfs" \in Range(cliTrace')
                          /\ Before(cliTrace', "load:pdfs", st)

\* "local": a folder that is missing or holds no PDF is asked for again, with
\* a warning and nothing else done
LocalAsksAgain ==
    (cliPc = "ask_folder" /\ "load:pdfs" \notin Range(cliTrace'))
        => /\ cliPc' = "ask_folder"
           /\ cliTrace' = cliTrace /\ cliDisk' = cliDisk /\ cliExc' = "none"
           /\ \E st \in {"missing", "empty"} : <<"warning", st>> \in cliLog'

\* any other source type: load_documents ends in an exception and returns
\* nothing
OtherNeverReturns ==
    cliExc' = "UnboundLocalError"
        => /\ cliPc' = "crashed" /\ cliDisk' = cliDisk
           /\ Range(cliTrace') \cap BuildSteps = {}

\* "s3": with the configuration present load_documents goes on to load the
\* bucket, to return its documents or to ask again
S3LoadsOrAsksAgain ==
    (LoadCalled /\ "get_aws_config:present" \in Range(cliTrace'))
        => /\ cliPc' # "crashed"
           /\ "load:s3" \in Range(cliTrace')

\* C23: load_documents of the script returns only a list of at least one
\* document: "local" and "s3" ask again on an empty or missing source instead
\* of returning, any other source type returns nothing at all, and
\* create_vector_db is never given an empty or undefined list.
C23_LoadReturnsDocuments ==
    [][/\ BuiltFromDocuments
       /\ LocalAsksAgain
       /\ OtherNeverReturns
       /\ S3LoadsOrAsksAgain]_vars

\* C23 without the "s3" source: what the script does for "local" and for
\* other source types is what the claim says
LocalLoadReturnsDocuments ==
    [][/\ BuiltFromDocuments
       /\ LocalAsksAgain
       /\ OtherNeverReturns]_vars

\* violated, as it should be: the script does build from a "local" load
\* after it has asked again for a folder that held no PDF
LocalLoadNeverBuilds ==
    ~(/\ cliReq.choice = "1" /\ "save" \in Range(cliTrace)
      /\ <<"warning", "empty">> \in cliLog
      /\ cliDisk[cliReq.name] = "ready")

\* the pass that ended was a pass of FRE with 'Use Vector DB' ticked that got
\* past the 'Create New Vector DB' button
FreSidebarPass ==
    /\ PassEnded /\ uiLast'.page = "fre" /\ uiLast'.use
    /\ uiLast'.event # "create_new"

\* load_index ran in the pass that ended
LoadIndexRan ==
    \/ "load_local" \in Range(uiLast'.trace)
    \/ "warning: No Vector DB available" \in uiLast'.shown

\* the flag becomes True only by the 'Create New Vector DB' button, which
\* reruns
FlagSetByButton ==
    (ss'.create_new_db_fre /\ ~ss.create_new_db_fre)
        => /\ uiLast'.page = "fre" /\ uiLast'.event = "create_new"
           /\ uiLast'.use /\ uiLast'.out = "rerun"

\* with the flag False, load_index runs
FlagOffLoadsIndex ==
    (FreSidebarPass /\ ~ss.create_new_db_fre)
        => LoadIndexRan /\ ~ss'.create_new_db_fre

\* with the flag True, the pass shows the creation form instead of running
\* load_index, and sets the flag back to False
FlagOnShowsForm ==
    (FreSidebarPass /\ ss.create_new_db_fre)
        => /\ ~LoadIndexRan
           /\ uiLast'.out # "exception"
           /\ ~ss'.create_new_db_fre

\* C24: in the FRE sidebar create_new_db_fre becomes True only by the 'Create
\* New Vector DB' button (and a rerun); the next pass runs the creation form
\* instead of load_index and sets the flag back to False; and every pass with
\* the flag False runs load_index.
C24_CreateFlagRoundTrip ==
    [][FlagSetByButton /\ FlagOffLoadsIndex /\ FlagOnShowsForm]_vars

\* C24 without the pass that follows the button: how the flag is set, and
\* what a pass with the flag False does, are as the claim says
FlagSetAndOff ==
    [][FlagSetByButton /\ FlagOffLoadsIndex]_vars

\* once True the flag stays True, and no pass of FRE with the flag True and
\* 'Use Vector DB' ticked gets to _create_index or past the sidebar
FlagStaysOn ==
    [][/\ ss.create_new_db_fre => ss'.create_new_db_fre
       /\ (FreSidebarPass /\ ss.create_new_db_fre)
            => /\ uiLast'.out = "exception"
               /\ uiLast'.trace = <<"create_new_db_fre">>
               /\ uiDisk' = uiDisk]_vars

\* violated, as it should be: the button has been clicked and the pass after
\* it has died
FlagNeverStuck ==
    ~(/\ ss.create_new_db_fre
      /\ uiLast.page = "fre" /\ uiLast.out = "exception"
      /\ uiLast.trace = <<"create_new_db_fre">>)

====
